---- MODULE Spec2Model ----
(***************************************************************************)
(* GoalTracker backend (src/backend/app.py): a Flask service over one      *)
(* PostgreSQL table "goals".  The model keeps the table, the store clock   *)
(* and a record of the request handled last (what was asked, what was      *)
(* answered, what the handler did with its store connection).              *)
(*                                                                         *)
(* Time is an integer; Epoch is 1970-01-01T00:00:00Z.  The service clock   *)
(* (datetime.now) and the store clock (NOW()) are one clock, `now`.  A     *)
(* handler runs within one instant of it, and any number of requests can   *)
(* be handled before the clock moves on.                                   *)
(***************************************************************************)
EXTENDS Integers, Sequences, FiniteSets, TLC

VARIABLES
    store,   \* the rows of table goals: a set of rows, at most one per id
    now,     \* the current instant
    dbUp,    \* whether psycopg2.connect reaches the store
    last,    \* the request handled last and its outcome
    trail,   \* the outcomes of the two requests before the last one, newest first
    boot,    \* _init_db: where it is, its attempts, and whether table goals exists
    conc     \* transactions in flight and a client that follows the sync cursor

vars == <<store, now, dbUp, last, trail, boot, conc>>

----------------------------------------------------------------------------
(* Bounds and domains *)

MaxTime == 2    \* the clock runs from 1 to MaxTime

Epoch == 0

Clock == 1..MaxTime

\* the instants a client can name: from before the epoch to after every
\* value of the clock
Times == (Epoch - 1)..(MaxTime + 1)

Ids == {"g1", "g2"}

DataFields == {"name", "target_value", "current_value"}

\* required_fields of create_goal
RequiredFields == {"id", "name", "target_value", "current_value", "updated_at"}

\* allowed_fields of update_goal
AllowedFields == {"name", "target_value", "current_value", "updated_at"}

----------------------------------------------------------------------------
(* Timestamp strings.  A string is modelled by what the parser looks at:   *)
(* whether its body is an ISO-8601 date-time (and which instant), and its  *)
(* suffix: "Z", "z", or an explicit offset "+00:00".  kind "text" is a     *)
(* string that is no date-time; kind "null" is a JSON value that is no     *)
(* string at all.                                                          *)

IsoString(t, sfx) == [kind |-> "iso", t |-> t, sfx |-> sfx]

TextString == [kind |-> "text", t |-> Epoch, sfx |-> ""]

NullValue == [kind |-> "null", t |-> Epoch, sfx |-> ""]

EmptyString == [kind |-> "empty", t |-> Epoch, sfx |-> ""]

\* s.upper().endswith("Z")
EndsWithZ(s) == s.kind = "iso" /\ s.sfx \in {"Z", "z"}

\* s[:-1] + "+00:00" when the string ends with Z or z, else s
NormalizeZ(s) == IF EndsWithZ(s) THEN [s EXCEPT !.sfx = "+00:00"] ELSE s

\* datetime.fromisoformat: an instant, or ValueError
FromIsoFormatOk(s) == s.kind = "iso" /\ s.sfx = "+00:00"

FromIsoFormat(s) == s.t

\* the parse of create_goal/update_goal/sync_goals: normalise, then parse
ParseOk(s) == FromIsoFormatOk(NormalizeZ(s))

ParseTime(s) == FromIsoFormat(NormalizeZ(s))

\* datetime.isoformat() of a timezone-aware instant
IsoFormat(t) == IsoString(t, "+00:00")

----------------------------------------------------------------------------
(* Rows and JSON *)

Row(id, name, tv, cv, at) ==
    [id |-> id, name |-> name, target_value |-> tv, current_value |-> cv,
     updated_at |-> at]

\* goal_dict: the row with updated_at rendered by isoformat()
GoalDict(r) == [r EXCEPT !.updated_at = IsoFormat(r.updated_at)]

HasRow(s, id) == \E r \in s : r.id = id

RowOf(s, id) == CHOOSE r \in s : r.id = id

----------------------------------------------------------------------------
(* Requests.  A JSON body is modelled by the keys it has, the keys whose   *)
(* value is null, and the values of the others.  json = FALSE is a body    *)
(* for which request.get_json() is falsy (null, {}).                       *)

Body(id, has, nulls, name, tv, cv, at) ==
    [json |-> TRUE, id |-> id, has |-> has, nulls |-> nulls, name |-> name,
     target_value |-> tv, current_value |-> cv, updated_at |-> at]

NoBody ==
    [json |-> FALSE, id |-> "", has |-> {}, nulls |-> {}, name |-> "Run",
     target_value |-> 100, current_value |-> 0, updated_at |-> EmptyString]

----------------------------------------------------------------------------
(* The outcome record of a request: what was asked (the id, the keys of   *)
(* the body, its null values, its timestamp string), what was answered,    *)
(* what the handler did with its connection (conn: "none" never acquired,  *)
(* "closed" acquired and closed, "open" acquired and not closed), how many *)
(* statements it executed, and the table before the request.               *)

Outcome(op, id, body, cursor, status, msg, goals, ts, conn, executed) ==
    [op |-> op, id |-> id, json |-> body.json, has |-> body.has,
     nulls |-> body.nulls,
     stamp |-> IF op = "sync" THEN cursor ELSE body.updated_at,
     up |-> dbUp, arrival |-> now, status |-> status, msg |-> msg,
     goals |-> goals, server_timestamp |-> ts, conn |-> conn,
     executed |-> executed, pre |-> store]

NoGoals == << >>

NoOutcome ==
    [op |-> "none", id |-> "", json |-> FALSE, has |-> {}, nulls |-> {},
     stamp |-> EmptyString, up |-> TRUE, arrival |-> 1, status |-> 0,
     msg |-> "", goals |-> NoGoals, server_timestamp |-> EmptyString,
     conn |-> "none", executed |-> 0, pre |-> {}]

\* what the trail keeps of an outcome
Summary(o) ==
    [op |-> o.op, id |-> o.id, status |-> o.status, stamp |-> o.stamp,
     server_timestamp |-> o.server_timestamp, goals |-> o.goals]

\* _init_db has returned after connecting at its first attempt and
\* creating the table and the trigger
Booted == [pc |-> "done", attempts |-> 1, sleeps |-> 0, inits |-> 1, table |-> TRUE]

\* the requests that run side by side
Writers == {"w1", "w2"}

\* a worker with no request
IdleTxn ==
    [pc |-> "idle", id |-> "", body |-> NoBody, stamp |-> Epoch,
     found |-> FALSE, row |-> Row("", "", 0, 0, Epoch), raced |-> FALSE]

\* no transaction in flight, a client that has not synced yet
Quiet ==
    [txn |-> [w \in Writers |-> IdleTxn],
     cursor |-> EmptyString, replica |-> {},
     won |-> [raced |-> FALSE, body |-> NoBody]]

\* the service after a boot that initialized the schema of an empty store
Init ==
    /\ store = {}
    /\ now = 1
    /\ dbUp = TRUE
    /\ last = NoOutcome
    /\ trail = <<Summary(NoOutcome), Summary(NoOutcome)>>
    /\ boot = Booted
    /\ conc = Quiet

\* time passes
Tick ==
    /\ now < MaxTime
    /\ now' = now + 1
    /\ UNCHANGED <<store, dbUp, last>>

\* the store becomes unreachable, or reachable again
Outage ==
    /\ dbUp' = ~dbUp
    /\ UNCHANGED <<store, now, last>>

----------------------------------------------------------------------------
(* GET /sync *)

\* WHERE updated_at > %s
SelectSince(s, lower) == {r \in s : r.updated_at > lower}

\* ORDER BY updated_at: every order of the rows that ascends by updated_at
OrderByUpdatedAt(S) ==
    {seq \in [1..Cardinality(S) -> S] :
        /\ \A i, j \in 1..Cardinality(S) : i # j => seq[i] # seq[j]
        /\ \A i, j \in 1..Cardinality(S) :
              i < j => seq[i].updated_at <= seq[j].updated_at}

\* the lower bound of the query: the parsed parameter, the epoch when absent
LowerBound(cursor) == IF cursor.kind = "empty" THEN Epoch ELSE ParseTime(cursor)

SyncGoals(cursor) ==
    IF cursor.kind # "empty" /\ ~ParseOk(cursor)
    THEN /\ last' = Outcome("sync", "", NoBody, cursor, 400,
                            "Invalid timestamp format. Please use ISO 8601.",
                            NoGoals, EmptyString, "none", 0)
         /\ UNCHANGED <<store, now, dbUp>>
    ELSE IF ~dbUp
    THEN /\ last' = Outcome("sync", "", NoBody, cursor, 500,
                            "Database connection failed",
                            NoGoals, EmptyString, "none", 0)
         /\ UNCHANGED <<store, now, dbUp>>
    ELSE IF ~boot.table
    \* relation "goals" does not exist: caught by except Exception
    THEN /\ last' = Outcome("sync", "", NoBody, cursor, 500,
                            "An internal error occurred",
                            NoGoals, EmptyString, "closed", 1)
         /\ UNCHANGED <<store, now, dbUp>>
    ELSE \E seq \in OrderByUpdatedAt(SelectSince(store, LowerBound(cursor))) :
         /\ last' = Outcome("sync", "", NoBody, cursor, 200, "",
                            [i \in 1..Len(seq) |-> GoalDict(seq[i])],
                            IsoFormat(now), "closed", 1)
         /\ UNCHANGED <<store, now, dbUp>>

----------------------------------------------------------------------------
(* POST /goals *)

\* InsertResult without the primary key on id
InsertResultNoKey(s, body) ==
    IF body.nulls # {} THEN "not_null_violation" ELSE "inserted"

\* what the store answers to the INSERT: a NOT NULL violation, a duplicate
\* key, or the row is inserted
InsertResult(s, body) ==
    IF body.nulls # {} THEN "not_null_violation"
    ELSE IF HasRow(s, body.id) THEN "unique_violation"
    ELSE "inserted"

\* the row the INSERT stores: there is no trigger on insert, the column
\* takes the value of the statement
InsertedRow(body, at) ==
    Row(body.id, body.name, body.target_value, body.current_value, at)

CreateGoal(body) ==
    IF ~dbUp
    THEN /\ last' = Outcome("create", body.id, body, EmptyString, 500,
                            "Database connection failed",
                            NoGoals, EmptyString, "none", 0)
         /\ UNCHANGED <<store, now, dbUp>>
    ELSE IF ~body.json
    THEN /\ last' = Outcome("create", body.id, body, EmptyString, 400,
                            "Request must contain JSON data",
                            NoGoals, EmptyString, "open", 0)
         /\ UNCHANGED <<store, now, dbUp>>
    ELSE IF ~(RequiredFields \subseteq body.has)
    THEN /\ last' = Outcome("create", body.id, body, EmptyString, 400,
                            "Missing required fields",
                            NoGoals, EmptyString, "open", 0)
         /\ UNCHANGED <<store, now, dbUp>>
    ELSE IF ~ParseOk(body.updated_at)
    \* AttributeError or ValueError while the statement's parameters are built
    THEN /\ last' = Outcome("create", body.id, body, EmptyString, 500,
                            "An internal error occurred",
                            NoGoals, EmptyString, "closed", 0)
         /\ UNCHANGED <<store, now, dbUp>>
    ELSE IF ~boot.table
    \* relation "goals" does not exist: no IntegrityError, except Exception
    THEN /\ last' = Outcome("create", body.id, body, EmptyString, 500,
                            "An internal error occurred",
                            NoGoals, EmptyString, "closed", 1)
         /\ UNCHANGED <<store, now, dbUp>>
    ELSE IF InsertResult(store, body) # "inserted"
    THEN /\ last' = Outcome("create", body.id, body, EmptyString, 409,
                            InsertResult(store, body),
                            NoGoals, EmptyString, "closed", 1)
         /\ UNCHANGED <<store, now, dbUp>>
    ELSE LET row == InsertedRow(body, ParseTime(body.updated_at)) IN
         /\ store' = store \cup {row}
         /\ last' = Outcome("create", body.id, body, EmptyString, 201, "",
                            <<GoalDict(row)>>, EmptyString, "closed", 1)
         /\ UNCHANGED <<now, dbUp>>

----------------------------------------------------------------------------
(* PUT /goals/<id> *)

\* update_fields: the allowed fields the body has
UpdateFields(body) == body.has \cap AllowedFields

\* UPDATE goals SET <update_fields>: the supplied columns take the body's
\* values (updated_at the parsed timestamp), the others keep theirs
SetColumns(r, body) ==
    [id |-> r.id,
     name |-> IF "name" \in body.has THEN body.name ELSE r.name,
     target_value |-> IF "target_value" \in body.has
                      THEN body.target_value ELSE r.target_value,
     current_value |-> IF "current_value" \in body.has
                       THEN body.current_value ELSE r.current_value,
     updated_at |-> IF "updated_at" \in body.has
                    THEN ParseTime(body.updated_at) ELSE r.updated_at]

\* trigger update_goal_updated_at, BEFORE UPDATE: NEW.updated_at = NOW()
SetUpdatedAt(new, at) == [new EXCEPT !.updated_at = at]

\* the row after the UPDATE statement
UpdatedRow(r, body, at) == SetUpdatedAt(SetColumns(r, body), at)

UpdateGoal(id, body) ==
    IF ~dbUp
    THEN /\ last' = Outcome("update", id, body, EmptyString, 500,
                            "Database connection failed",
                            NoGoals, EmptyString, "none", 0)
         /\ UNCHANGED <<store, now, dbUp>>
    ELSE IF ~body.json
    THEN /\ last' = Outcome("update", id, body, EmptyString, 400,
                            "Request must contain JSON data",
                            NoGoals, EmptyString, "open", 0)
         /\ UNCHANGED <<store, now, dbUp>>
    ELSE IF "updated_at" \in body.has /\ ~ParseOk(body.updated_at)
    \* AttributeError or ValueError outside the try block: unhandled
    THEN /\ last' = Outcome("update", id, body, EmptyString, 500,
                            "unhandled exception",
                            NoGoals, EmptyString, "open", 0)
         /\ UNCHANGED <<store, now, dbUp>>
    ELSE IF UpdateFields(body) = {}
    THEN /\ last' = Outcome("update", id, body, EmptyString, 400,
                            "No fields provided for update",
                            NoGoals, EmptyString, "open", 0)
         /\ UNCHANGED <<store, now, dbUp>>
    ELSE IF ~boot.table
    \* relation "goals" does not exist: caught by except Exception
    THEN /\ last' = Outcome("update", id, body, EmptyString, 500,
                            "An internal error occurred",
                            NoGoals, EmptyString, "closed", 1)
         /\ UNCHANGED <<store, now, dbUp>>
    ELSE IF ~HasRow(store, id)
    THEN /\ last' = Outcome("update", id, body, EmptyString, 404,
                            "Goal not found",
                            NoGoals, EmptyString, "closed", 1)
         /\ UNCHANGED <<store, now, dbUp>>
    ELSE IF body.nulls \cap UpdateFields(body) # {}
    \* NOT NULL violation: IntegrityError, caught by except Exception
    THEN /\ last' = Outcome("update", id, body, EmptyString, 500,
                            "An internal error occurred",
                            NoGoals, EmptyString, "closed", 1)
         /\ UNCHANGED <<store, now, dbUp>>
    ELSE LET old == RowOf(store, id)
             new == UpdatedRow(old, body, now) IN
         /\ store' = (store \ {old}) \cup {new}
         /\ last' = Outcome("update", id, body, EmptyString, 200, "",
                            <<GoalDict(new)>>, EmptyString, "closed", 1)
         /\ UNCHANGED <<now, dbUp>>

----------------------------------------------------------------------------
(* DELETE /goals/<id> *)

\* DeleteRows of a statement whose effect is not committed
DeleteRowsLost(s, id) == s

DeleteRowsOther(s, id) == {r \in s : r.id = id}

\* DELETE FROM goals WHERE id = %s
DeleteRows(s, id) == {r \in s : r.id # id}

DeleteGoalUnchecked(id) ==
    IF ~dbUp
    THEN /\ last' = Outcome("delete", id, NoBody, EmptyString, 500,
                            "Database connection failed",
                            NoGoals, EmptyString, "none", 0)
         /\ UNCHANGED <<store, now, dbUp>>
    ELSE /\ store' = DeleteRows(store, id)
         /\ last' = Outcome("delete", id, NoBody, EmptyString, 204,
                            "deleted successfully",
                            NoGoals, EmptyString, "closed", 1)
         /\ UNCHANGED <<now, dbUp>>

DeleteGoal(id) ==
    IF ~dbUp
    THEN /\ last' = Outcome("delete", id, NoBody, EmptyString, 500,
                            "Database connection failed",
                            NoGoals, EmptyString, "none", 0)
         /\ UNCHANGED <<store, now, dbUp>>
    ELSE IF ~boot.table
    \* relation "goals" does not exist: caught by except Exception
    THEN /\ last' = Outcome("delete", id, NoBody, EmptyString, 500,
                            "An internal error occurred",
                            NoGoals, EmptyString, "closed", 1)
         /\ UNCHANGED <<store, now, dbUp>>
    ELSE IF ~HasRow(store, id)
    THEN /\ last' = Outcome("delete", id, NoBody, EmptyString, 404,
                            "Goal not found",
                            NoGoals, EmptyString, "closed", 1)
         /\ UNCHANGED <<store, now, dbUp>>
    ELSE /\ store' = DeleteRows(store, id)
         /\ last' = Outcome("delete", id, NoBody, EmptyString, 204,
                            "deleted successfully",
                            NoGoals, EmptyString, "closed", 1)
         /\ UNCHANGED <<now, dbUp>>

----------------------------------------------------------------------------
(* The requests of the model *)

\* timestamp strings a client sends in a body
BodyStamps ==
    {IsoString(Epoch - 1, "Z"), IsoString(1, "+00:00"), IsoString(MaxTime + 1, "Z"),
     TextString, NullValue}

\* values of the query parameter last_sync_timestamp; EmptyString is absent
Cursors ==
    {IsoString(t, "+00:00") : t \in Times}
        \cup {IsoString(1, "Z"), TextString, EmptyString}

\* the data a client writes: a goal as first entered, and as later edited
Entered(id, has, nulls, at) == Body(id, has, nulls, "Run", 100, 0, at)

Edited(id, has, nulls, at) == Body(id, has, nulls, "Read", 200, 5, at)

\* a body keeps no value for a key it does not have
Canonical(b) ==
    [b EXCEPT !.name = IF "name" \in b.has /\ "name" \notin b.nulls
                       THEN @ ELSE "Run",
              !.target_value = IF "target_value" \in b.has
                                  /\ "target_value" \notin b.nulls
                               THEN @ ELSE 100,
              !.current_value = IF "current_value" \in b.has
                                   /\ "current_value" \notin b.nulls
                                THEN @ ELSE 0,
              !.updated_at = IF "updated_at" \in b.has THEN @ ELSE EmptyString]

\* bodies of POST /goals: complete records, records with one null value,
\* records with one key missing, and no body
CreateBodies ==
    {Entered(id, RequiredFields, {}, at) : id \in Ids, at \in BodyStamps}
    \cup {Edited(id, RequiredFields, {}, IsoString(1, "Z")) : id \in Ids}
    \cup {Canonical(Entered(id, RequiredFields, {f}, IsoString(1, "Z"))) :
            id \in Ids, f \in {"name", "current_value"}}
    \cup {Canonical(Entered(id, RequiredFields \ {f}, {}, IsoString(1, "Z"))) :
            id \in Ids, f \in {"target_value", "updated_at"}}
    \cup {NoBody}

\* the sets of data fields an update supplies
EditedFields == {{}, {"current_value"}, {"name", "target_value"}, DataFields}

\* bodies of PUT /goals/<id>: data fields with and without a timestamp; one
\* null value; no allowed field; no body
UpdateBodies ==
    {Canonical(Edited("", has, {}, EmptyString)) : has \in EditedFields}
    \cup {Canonical(Edited("", has \cup {"updated_at"}, {}, at)) :
            has \in {{}, {"current_value"}},
            at \in {IsoString(Epoch - 1, "Z"), IsoString(MaxTime + 1, "Z"),
                    TextString, NullValue}}
    \cup {Canonical(Edited("", {"name"}, {"name"}, EmptyString))}
    \cup {NoBody}

\* one request at a time, after the boot
Serial == UNCHANGED <<boot, conc>>

Next ==
    \/ Tick /\ UNCHANGED trail /\ Serial
    \/ Outage /\ UNCHANGED trail /\ Serial
    \/ \E c \in Cursors : SyncGoals(c) /\ UNCHANGED trail /\ Serial
    \/ \E b \in CreateBodies : CreateGoal(b) /\ UNCHANGED trail /\ Serial
    \/ \E id \in Ids, b \in UpdateBodies :
          UpdateGoal(id, b) /\ UNCHANGED trail /\ Serial
    \/ \E id \in Ids : DeleteGoal(id) /\ UNCHANGED trail /\ Serial

Spec == Init /\ [][Next]_vars

----------------------------------------------------------------------------
(* A second specification for the properties of three requests in a row:   *)
(* the same handlers over fewer requests, keeping the outcomes of the two  *)
(* requests before the last one.  The store stays reachable.               *)

TrailCursors == {IsoFormat(t) : t \in Clock} \cup {EmptyString}

TrailCreateBodies ==
    {Entered(id, RequiredFields, {}, at) :
        id \in Ids, at \in {IsoString(Epoch - 1, "Z"), IsoString(MaxTime + 1, "Z")}}

TrailUpdateBodies == {Canonical(Edited("", {"current_value"}, {}, EmptyString))}

\* the outcome that was the last one becomes the newest of the trail
Remember == trail' = <<Summary(last), trail[1]>>

NextTrail ==
    \/ Tick /\ UNCHANGED trail /\ Serial
    \/ \E c \in TrailCursors : SyncGoals(c) /\ Remember /\ Serial
    \/ \E b \in TrailCreateBodies : CreateGoal(b) /\ Remember /\ Serial
    \/ \E id \in Ids, b \in TrailUpdateBodies :
          UpdateGoal(id, b) /\ Remember /\ Serial
    \/ \E id \in Ids : DeleteGoal(id) /\ Remember /\ Serial

SpecTrail == Init /\ [][NextTrail]_vars

----------------------------------------------------------------------------
(* Properties.  In every state `last` is the outcome of the request        *)
(* handled last, last.pre the table before it and store the table after.   *)

\* the ids of a list of returned goals, in order
IdsOf(goals) == [i \in 1..Len(goals) |-> goals[i].id]

\* the instant a returned goal carries in updated_at
StampOf(goal) == ParseTime(goal.updated_at)

Returned(o, id) == \E i \in 1..Len(o.goals) : o.goals[i].id = id

Succeeded(o, op, status) == o.op = op /\ o.status = status

(* C1: after every successful create, the updated_at of the returned row   *)
(* and of the stored row is at or after the arrival of the request,        *)
(* whatever updated_at the client sent.                                    *)
C1_CreateStampedAtWriteTime ==
    Succeeded(last, "create", 201) =>
        /\ StampOf(last.goals[1]) >= last.arrival
        /\ \A r \in store : r.id = last.id => r.updated_at >= last.arrival

(* C3: in every sync response, server_timestamp is at or after the         *)
(* updated_at of every goal in the response.                               *)
C3_ServerTimestampCoversGoals ==
    Succeeded(last, "sync", 200) =>
        \A i \in 1..Len(last.goals) :
            StampOf(last.goals[i]) <= ParseTime(last.server_timestamp)

(* C4: a successful sync returns exactly the stored goals whose updated_at *)
(* is strictly after last_sync_timestamp, each once, in ascending          *)
(* updated_at order; without the parameter it returns every stored goal.   *)
C4_SyncReturnsChangesSince ==
    Succeeded(last, "sync", 200) =>
        LET got == {last.goals[i] : i \in 1..Len(last.goals)} IN
        /\ last.stamp.kind # "empty" =>
              got = {GoalDict(r) :
                        r \in {x \in last.pre : x.updated_at > ParseTime(last.stamp)}}
        /\ last.stamp.kind = "empty" => got = {GoalDict(r) : r \in last.pre}
        /\ Cardinality(got) = Len(last.goals)
        /\ \A i, j \in 1..Len(last.goals) :
              i < j => StampOf(last.goals[i]) <= StampOf(last.goals[j])

(* C6: a successful update changes only the supplied data fields of its   *)
(* row: the unsupplied fields, the id and every other row are unchanged;   *)
(* and the row's updated_at after the update is strictly later than the    *)
(* one before it.                                                          *)
C6_PartialUpdateFrame ==
    Succeeded(last, "update", 200) =>
        LET old == RowOf(last.pre, last.id)
            new == RowOf(store, last.id) IN
        /\ HasRow(last.pre, last.id) /\ HasRow(store, last.id)
        /\ new.id = old.id
        /\ "name" \notin last.has => new.name = old.name
        /\ "target_value" \notin last.has => new.target_value = old.target_value
        /\ "current_value" \notin last.has => new.current_value = old.current_value
        /\ store \ {new} = last.pre \ {old}
        /\ new.updated_at > old.updated_at

\* a create request that passes validation: a body with the five fields and
\* a timestamp that parses
WellFormedCreate(o) ==
    /\ o.op = "create"
    /\ o.json
    /\ RequiredFields \subseteq o.has
    /\ ParseOk(o.stamp)

(* C7: a create whose id already has a row leaves the table as it was, and *)
(* is answered 409 when the request is well formed and the store is        *)
(* reachable.                                                              *)
C7_DuplicateCreateConflict ==
    (last.op = "create" /\ HasRow(last.pre, last.id)) =>
        /\ store = last.pre
        /\ (WellFormedCreate(last) /\ last.up) => last.status = 409

\* a duplicate create was answered 409 while the table held two rows
C7_Witness ==
    /\ Succeeded(last, "create", 409)
    /\ last.msg = "unique_violation"
    /\ HasRow(last.pre, last.id)
    /\ Cardinality(store) = 2

\* a request that fails input validation
FailsValidation(o) ==
    \/ o.op = "sync" /\ o.stamp.kind # "empty" /\ ~ParseOk(o.stamp)
    \/ o.op = "create" /\ (~o.json \/ ~(RequiredFields \subseteq o.has))
    \/ o.op = "update" /\ (~o.json \/ o.has \cap AllowedFields = {})

(* C9: a request that fails input validation is answered 400 and never     *)
(* touches the store: no connection is acquired, no statement is executed  *)
(* and the rows are unchanged, whether or not the store is reachable.      *)
C9_ValidationBeforeStore ==
    FailsValidation(last) =>
        /\ last.status = 400
        /\ last.conn = "none"
        /\ last.executed = 0
        /\ store = last.pre

(* C10: a create or update whose body carries an updated_at string that    *)
(* does not parse as ISO-8601 is answered 400 and leaves the store         *)
(* unchanged.                                                              *)
C10_BadTimestampIsValidationError ==
    (/\ last.op \in {"create", "update"}
     /\ last.json
     /\ "updated_at" \in last.has
     /\ last.stamp.kind = "text"
     /\ last.up) =>
        /\ last.status = 400
        /\ store = last.pre

----------------------------------------------------------------------------
(* Properties of requests in a row, over SpecTrail: trail[1] is the        *)
(* outcome of the request before the last one, trail[2] the one before.    *)

(* C2: a sync answers server_timestamp T1, then a goal is created, then a  *)
(* sync is made with last_sync_timestamp = T1, with no other request in    *)
(* between: the second sync returns the new goal and nothing else.         *)
C2_MonotonicCursor ==
    (/\ Succeeded(trail[2], "sync", 200)
     /\ Succeeded(trail[1], "create", 201)
     /\ Succeeded(last, "sync", 200)
     /\ last.stamp = trail[2].server_timestamp) =>
        IdsOf(last.goals) = <<trail[1].id>>

(* C5: a created goal appears in a following sync whose                    *)
(* last_sync_timestamp is older than the goal's updated_at; and the sync   *)
(* after that, made with the server_timestamp of the previous one, does    *)
(* not return the goal again.                                              *)
C5_RoundTrip ==
    /\ (/\ Succeeded(trail[1], "create", 201)
        /\ Succeeded(last, "sync", 200)
        /\ LowerBound(last.stamp) < StampOf(trail[1].goals[1])) =>
           Returned(last, trail[1].id)
    /\ (/\ Succeeded(trail[2], "create", 201)
        /\ Succeeded(trail[1], "sync", 200)
        /\ Returned(trail[1], trail[2].id)
        /\ Succeeded(last, "sync", 200)
        /\ last.stamp = trail[1].server_timestamp) =>
           ~Returned(last, trail[2].id)

(* C8: a delete of an id that has a row is answered 204 and removes that   *)
(* row and no other; a second delete of the same id right after it is      *)
(* answered 404 and leaves the table unchanged.                            *)
C8_DeleteTwice ==
    /\ (last.op = "delete" /\ last.up /\ HasRow(last.pre, last.id)) =>
           /\ last.status = 204
           /\ store = {r \in last.pre : r.id # last.id}
    /\ (/\ Succeeded(trail[1], "delete", 204)
        /\ last.op = "delete" /\ last.up
        /\ last.id = trail[1].id) =>
           /\ last.status = 404
           /\ store = last.pre

\* the same id was deleted twice in a row while another row stayed
C8_Witness ==
    /\ Succeeded(trail[1], "delete", 204)
    /\ Succeeded(last, "delete", 404)
    /\ last.id = trail[1].id
    /\ store # {}

----------------------------------------------------------------------------
(* Absent rows, stamps of a row, connections, error bodies (Spec) *)

\* an update request that reaches the UPDATE statement: a JSON body with at
\* least one allowed field and, when it has updated_at, one that parses
WellFormedUpdate(o) ==
    /\ o.op = "update"
    /\ o.json
    /\ o.has \cap AllowedFields # {}
    /\ "updated_at" \in o.has => ParseOk(o.stamp)

(* C11: a well-formed update or a delete whose id has no row is answered   *)
(* 404 while the store is reachable, and leaves the table as it was.       *)
C11_AbsentIdNotFound ==
    ((WellFormedUpdate(last) \/ last.op = "delete")
        /\ last.up /\ ~HasRow(last.pre, last.id)) =>
        /\ last.status = 404
        /\ store = last.pre

\* an update of an absent id was answered 404 while another row was stored
C11_Witness ==
    /\ Succeeded(last, "update", 404)
    /\ WellFormedUpdate(last)
    /\ ~HasRow(last.pre, last.id)
    /\ store # {}
    /\ store = last.pre

(* C12: the updated_at of a row never decreases: after every successful    *)
(* update the row's updated_at is at or after the one it had before.       *)
C12_RowStampNeverDecreases ==
    Succeeded(last, "update", 200) =>
        RowOf(store, last.id).updated_at >= RowOf(last.pre, last.id).updated_at

(* C13: every request leaves no connection open: the handler that acquired *)
(* a connection closed it on the path it returned by.                      *)
C13_ConnectionReleased == last.conn # "open"

\* the texts of the store's errors that str(e) yields
StoreDiagnostics == {"not_null_violation", "unique_violation"}

(* C18: the body of a 409 or 500 response never carries the text of the    *)
(* store's error.                                                          *)
C18_NoStoreDiagnostics ==
    last.status \in {409, 500} => last.msg \notin StoreDiagnostics

(* C20: a create is answered 409 only when a row with its id was stored    *)
(* before the request.                                                     *)
C20_ConflictOnlyForExistingId ==
    Succeeded(last, "create", 409) => HasRow(last.pre, last.id)

----------------------------------------------------------------------------
(* Deleted rows in later syncs (SpecTrail) *)

(* C19: a successful sync returns only goals of rows that are stored, as   *)
(* the rows are, and never the id of a row deleted by one of the two       *)
(* requests before it unless a create stored the id again since.           *)
C19_DeletedNeverSynced ==
    Succeeded(last, "sync", 200) =>
        /\ \A i \in 1..Len(last.goals) :
              \E r \in last.pre : last.goals[i] = GoalDict(r)
        /\ Succeeded(trail[1], "delete", 204) => ~Returned(last, trail[1].id)
        /\ (/\ Succeeded(trail[2], "delete", 204)
            /\ ~(Succeeded(trail[1], "create", 201) /\ trail[1].id = trail[2].id))
              => ~Returned(last, trail[2].id)

\* a row was deleted, and two syncs later a sync without cursor returned
\* the other row only
C19_Witness ==
    /\ Succeeded(trail[2], "delete", 204)
    /\ Succeeded(trail[1], "sync", 200)
    /\ Succeeded(last, "sync", 200)
    /\ last.stamp.kind = "empty"
    /\ Len(last.goals) = 1
    /\ ~Returned(last, trail[2].id)

----------------------------------------------------------------------------
(* _init_db, and the requests served after it *)

\* for i in range(max_retries)
MaxRetries == 5

\* the process starts: the store is reachable or not, and an earlier run of
\* the service has left table goals in it or not
InitBoot ==
    /\ store = {}
    /\ now = 1
    /\ dbUp \in BOOLEAN
    /\ last = NoOutcome
    /\ trail = <<Summary(NoOutcome), Summary(NoOutcome)>>
    /\ \E t \in BOOLEAN :
          boot = [pc |-> "connect", attempts |-> 0, sleeps |-> 0, inits |-> 0,
                  table |-> t]
    /\ conc = Quiet

BootAttemptNoBreak ==
    /\ boot.pc = "connect"
    /\ boot.attempts < MaxRetries
    /\ boot' = [boot EXCEPT !.attempts = @ + 1,
                            !.sleeps = @ + 1,
                            !.pc = IF boot.attempts + 1 = MaxRetries /\ ~dbUp
                                   THEN "done" ELSE "connect"]
    /\ UNCHANGED <<store, now, dbUp, last, trail, conc>>

\* one pass of the loop: get_db_connection(), then break, or sleep and, after
\* the last pass, the else branch that returns
BootAttempt ==
    /\ boot.pc = "connect"
    /\ boot.attempts < MaxRetries
    /\ IF dbUp
       THEN boot' = [boot EXCEPT !.attempts = @ + 1, !.pc = "schema"]
       ELSE boot' = [boot EXCEPT !.attempts = @ + 1,
                                 !.sleeps = @ + 1,
                                 !.pc = IF boot.attempts + 1 = MaxRetries
                                        THEN "done" ELSE "connect"]
    /\ UNCHANGED <<store, now, dbUp, last, trail, conc>>

\* CREATE TABLE IF NOT EXISTS, the trigger, commit; when the store has gone
\* the error is caught, and conn.rollback() on the lost connection returns
\* or raises out of _init_db
BootSchema ==
    /\ boot.pc = "schema"
    /\ IF dbUp
       THEN boot' = [boot EXCEPT !.inits = @ + 1, !.table = TRUE, !.pc = "done"]
       ELSE \E pc \in {"done", "raised"} :
               boot' = [boot EXCEPT !.inits = @ + 1, !.pc = pc]
    /\ UNCHANGED <<store, now, dbUp, last, trail, conc>>

\* _init_db() has returned and app serves requests
Serving == boot.pc = "done"

BootCursors == {EmptyString, IsoFormat(1), TextString}

BootCreateBodies == TrailCreateBodies \cup {NoBody}

BootUpdateBodies ==
    TrailUpdateBodies \cup {Canonical(Edited("", {}, {}, EmptyString))}

NextBoot ==
    \/ BootAttempt
    \/ BootSchema
    \/ Tick /\ UNCHANGED trail /\ Serial
    \/ Outage /\ UNCHANGED trail /\ Serial
    \/ \E c \in BootCursors :
          Serving /\ SyncGoals(c) /\ UNCHANGED trail /\ Serial
    \/ \E b \in BootCreateBodies :
          Serving /\ CreateGoal(b) /\ UNCHANGED trail /\ Serial
    \/ \E id \in Ids, b \in BootUpdateBodies :
          Serving /\ UpdateGoal(id, b) /\ UNCHANGED trail /\ Serial
    \/ \E id \in Ids : Serving /\ DeleteGoal(id) /\ UNCHANGED trail /\ Serial

\* _init_db is straight-line code run by the starting process: its next
\* statement is executed, and time.sleep returns
SpecBoot ==
    InitBoot /\ [][NextBoot]_vars /\ WF_vars(BootAttempt \/ BootSchema)

\* the loop made a connection: every pass but the last one slept
Connected == boot.attempts = boot.sleeps + 1

(* C16: _init_db always terminates. It makes at most max_retries attempts, *)
(* makes no attempt after the one that connects, and then runs the schema  *)
(* initialization once; when every attempt fails it returns without        *)
(* running the schema initialization and without raising.                  *)
C16_InitDbTerminates ==
    /\ [](/\ boot.attempts <= MaxRetries
          /\ boot.inits <= 1
          /\ boot.pc = "schema" => Connected /\ boot.inits = 0
          /\ boot.pc \in {"done", "raised"} =>
                \/ Connected /\ boot.inits = 1
                \/ /\ boot.attempts = MaxRetries
                   /\ boot.sleeps = MaxRetries
                   /\ boot.inits = 0
                   /\ boot.pc = "done")
    /\ <>(boot.pc \in {"done", "raised"})

\* every attempt failed and _init_db returned; the store is reachable now
C16_Witness ==
    /\ boot.pc = "done"
    /\ boot.attempts = MaxRetries
    /\ boot.sleeps = MaxRetries
    /\ boot.inits = 0
    /\ dbUp

\* a request whose input passes validation and violates no constraint
ValidRequest(o) ==
    \/ o.op = "sync" /\ (o.stamp.kind = "empty" \/ ParseOk(o.stamp))
    \/ WellFormedCreate(o) /\ o.nulls = {}
    \/ WellFormedUpdate(o) /\ o.nulls = {}
    \/ o.op = "delete"

(* C17: a valid request made while the store is unreachable is answered    *)
(* 500 and changes no row; a valid request made while the store is         *)
(* reachable is not answered 500, whatever earlier requests and the        *)
(* attempts of _init_db met.                                               *)
C17_OutageIsNotSticky ==
    ValidRequest(last) =>
        /\ ~last.up => last.status = 500 /\ store = last.pre
        /\ last.up => last.status # 500

----------------------------------------------------------------------------
(* Updates that run side by side, and a client that follows the cursor *)

\* bodies of the concurrent PUT /goals/<id>
ConcUpdateBodies ==
    {Canonical(Edited("", {"current_value"}, {}, EmptyString)),
     Canonical(Entered("", {"current_value"}, {}, EmptyString))}

\* the concurrent requests are about one goal
ConcIds == {"g1"}

\* bodies of POST /goals of a client whose clock agrees with the store's
ConcCreateBodies ==
    {Entered(id, RequiredFields, {}, IsoFormat(now)) : id \in ConcIds}

\* a request that arrives after the response of the client's last sync
\* reads a clock later than that response's server_timestamp
AfterSync == conc.cursor # IsoFormat(now)

\* cursor.execute, first half: psycopg2 opens the transaction with BEGIN,
\* and NOW() is the time of that BEGIN for the rest of the transaction
TxnBegin(w, id, body) ==
    /\ AfterSync
    /\ conc.txn[w].pc = "idle"
    /\ conc' = [conc EXCEPT !.txn[w] =
                    [IdleTxn EXCEPT !.pc = "begun", !.id = id, !.body = body,
                                    !.stamp = now]]
    /\ UNCHANGED <<store, now, dbUp, last, trail, boot>>

\* the row of id is locked by a transaction that has updated it and has not
\* committed
Locked(id) ==
    \E v \in Writers :
        /\ conc.txn[v].pc = "executed"
        /\ conc.txn[v].id = id
        /\ conc.txn[v].found

\* cursor.execute, second half: the UPDATE waits for the row's lock, then
\* changes the committed row; the trigger stamps it NOW()
TxnExecute(w) ==
    LET t == conc.txn[w] IN
    /\ t.pc = "begun"
    /\ ~Locked(t.id)
    /\ conc' = [conc EXCEPT !.txn[w] =
                    [t EXCEPT !.pc = "executed",
                              !.found = HasRow(store, t.id),
                              !.row = IF HasRow(store, t.id)
                                      THEN UpdatedRow(RowOf(store, t.id),
                                                      t.body, t.stamp)
                                      ELSE @]]
    /\ UNCHANGED <<store, now, dbUp, last, trail, boot>>

\* conn.commit() and the response; a transaction still in flight on the same
\* row has raced with this one
TxnCommit(w) ==
    LET t == conc.txn[w] IN
    /\ t.pc = "executed"
    /\ IF t.found
       THEN /\ store' = (store \ {RowOf(store, t.id)}) \cup {t.row}
            /\ last' = Outcome("update", t.id, t.body, EmptyString, 200, "",
                               <<GoalDict(t.row)>>, EmptyString, "closed", 1)
       ELSE /\ store' = store
            /\ last' = Outcome("update", t.id, t.body, EmptyString, 404,
                               "Goal not found",
                               NoGoals, EmptyString, "closed", 1)
    /\ conc' = [conc EXCEPT
                    !.txn = [v \in Writers |->
                                IF v = w THEN IdleTxn
                                ELSE IF /\ conc.txn[v].pc # "idle"
                                        /\ conc.txn[v].id = t.id
                                        /\ t.found
                                     THEN [conc.txn[v] EXCEPT !.raced = TRUE]
                                     ELSE conc.txn[v]],
                    !.won = [raced |-> t.raced /\ t.found, body |-> t.body]]
    /\ UNCHANGED <<now, dbUp, trail, boot>>

\* the goals a client holds after a sync response: the returned ones replace
\* those of the same id
Merge(replica, goals) ==
    {g \in replica : \A i \in 1..Len(goals) : goals[i].id # g.id}
        \cup {goals[i] : i \in 1..Len(goals)}

\* GET /sync by the client that passes the server_timestamp of its previous
\* sync as last_sync_timestamp
FollowerSync ==
    /\ SyncGoals(conc.cursor)
    /\ conc' = [conc EXCEPT !.cursor = last'.server_timestamp,
                            !.replica = Merge(@, last'.goals)]
    /\ UNCHANGED <<trail, boot>>

NextConc ==
    \/ Tick /\ UNCHANGED trail /\ Serial
    \/ \E b \in ConcCreateBodies :
          AfterSync /\ CreateGoal(b) /\ UNCHANGED trail /\ Serial
    \/ \E w \in Writers, id \in ConcIds, b \in ConcUpdateBodies :
          TxnBegin(w, id, b)
    \/ \E w \in Writers : TxnExecute(w)
    \/ \E w \in Writers : TxnCommit(w)
    \/ FollowerSync

SpecConc == Init /\ [][NextConc]_vars

(* C14: after every sync of the client that follows the cursor, the client *)
(* holds every stored row as it is stored: no committed create or update   *)
(* of a row is missing from what the syncs since its commit returned.      *)
C14_NoCommittedChangeLost ==
    Succeeded(last, "sync", 200) =>
        \A r \in store : GoalDict(r) \in conc.replica

(* C15: when an update is committed after an update of the same row that   *)
(* ran side by side with it, the row holds the values of the fields the    *)
(* last committer supplied, and its updated_at is not earlier than the one *)
(* the first committer left.                                               *)
C15_LastCommitterWins ==
    (Succeeded(last, "update", 200) /\ conc.won.raced) =>
        LET first == RowOf(last.pre, last.id)
            final == RowOf(store, last.id)
            body == conc.won.body IN
        /\ "name" \in body.has => final.name = body.name
        /\ "target_value" \in body.has => final.target_value = body.target_value
        /\ "current_value" \in body.has => final.current_value = body.current_value
        /\ final.updated_at >= first.updated_at
====
